---- MODULE Spec2Model ----
(***************************************************************************)
(* Model of webserver.py: the Flask server that receives the URL of an     *)
(* NFC-e on POST /nota, renders it in a headless browser, extracts the     *)
(* receipt with BeautifulSoup, stores it in the tables 'compra' and        *)
(* 'produto', and reports the outcome of each attempt on GET /feedback.    *)
(*                                                                         *)
(* Python strings that the code transforms are sequences of characters;    *)
(* Python dicts are functions whose DOMAIN is the set of keys present;     *)
(* an exception is the record [exc |-> <class name>].                      *)
(***************************************************************************)
EXTENDS Integers, Sequences, FiniteSets, TLC

\* Number of POST /nota requests in a run.
MaxPosts == 2

\* The request-handling threads of the server: at most two requests overlap.
Workers == {1, 2}

None == "None"

(***************************************************************************)
(* Strings                                                                 *)
(***************************************************************************)

\* str.replace(old, new) for a one-character old and new.
Replace(s, old, new) == [i \in DOMAIN s |-> IF s[i] = old THEN new ELSE s[i]]

\* str.replace(old, '') for a one-character old.
Remove(s, old) == SelectSeq(s, LAMBDA c : c # old)

\* sub in s, for sequences.
Contains(s, sub) ==
    \E i \in 0..(Len(s) - Len(sub)) : SubSeq(s, i + 1, i + Len(sub)) = sub

(***************************************************************************)
(* POST /nota: the form field 'content'.  The token "URL" stands for the   *)
(* literal "https://sat.sef.sc.gov.br/tax.NET/Sat.DFe.NFCe.Web/Consultas/  *)
(* NFCe_Detalhes.aspx"; the other tokens are any other text.               *)
(***************************************************************************)
LinkEsperado == <<"URL">>

Contents == { <<"x">>, <<"URL", "?p=">>, <<"x", "URL">> }

(***************************************************************************)
(* The rendered page, as the facts the selectors of extrair_dados_nfce     *)
(* read from it.                                                           *)
(***************************************************************************)

\* Texts of the span of class 'chave'.
ChavePlain == <<"4", " ", "2">>
ChaveComma == <<"4", ",", "2">>
ChaveDot   == <<"4", ".", "2">>
RawChaves == {ChavePlain, ChaveComma, ChaveDot}

\* Texts that match \d{2}/\d{2}/\d{4} \d{2}:\d{2}:\d{2} after 'Emissão:'.
DataBoa == "05/03/2024 14:30:00"
DataRuim == "31/02/2024 10:00:00"

\* Rows of the table 'tabResult': the number of td cells, whether the spans
\* the code reads are there, and the text of the span RCod.
Hdr   == [cells |-> 0, spans |-> FALSE, cod |-> "-"]
ItemA == [cells |-> 2, spans |-> TRUE, cod |-> "a"]
ItemB == [cells |-> 2, spans |-> TRUE, cod |-> "b"]
ItemUmaCelula == [cells |-> 1, spans |-> TRUE, cod |-> "a"]
ItemSemSpan == [cells |-> 2, spans |-> FALSE, cod |-> "a"]

RowSeqs == { <<>>, <<Hdr>>, <<Hdr, ItemA>>, <<Hdr, ItemA, ItemB>>,
             <<ItemB, Hdr, ItemA>> }

Base(k, rows) ==
    [txtTopo |-> TRUE, cnpj |-> TRUE, endereco |-> TRUE, emissao |-> DataBoa,
     totalNota |-> TRUE, qtd |-> TRUE, valor |-> TRUE, desconto |-> FALSE,
     linhaShade |-> TRUE, spanChave |-> TRUE, chave |-> k, tabela |-> TRUE,
     rows |-> rows]

Base0 == Base(ChavePlain, <<Hdr, ItemA>>)

\* Pages that lack one fragment, or hold one more, than Base0.
Variantes ==
    { [Base0 EXCEPT !.txtTopo = FALSE],
      [Base0 EXCEPT !.cnpj = FALSE],
      [Base0 EXCEPT !.endereco = FALSE],
      [Base0 EXCEPT !.emissao = None],
      [Base0 EXCEPT !.emissao = DataRuim],
      [Base0 EXCEPT !.totalNota = FALSE],
      [Base0 EXCEPT !.totalNota = FALSE, !.rows = <<Hdr>>],
      [Base0 EXCEPT !.qtd = FALSE],
      [Base0 EXCEPT !.valor = FALSE],
      [Base0 EXCEPT !.desconto = TRUE],
      [Base0 EXCEPT !.linhaShade = FALSE],
      [Base0 EXCEPT !.spanChave = FALSE],
      [Base0 EXCEPT !.tabela = FALSE],
      [Base0 EXCEPT !.rows = <<Hdr, ItemUmaCelula>>],
      [Base0 EXCEPT !.rows = <<Hdr, ItemSemSpan>>] }

\* The pages a request may be served.
Pages ==
    { Base(k, <<Hdr, ItemA>>) : k \in RawChaves }
        \cup { Base(ChavePlain, r) : r \in RowSeqs }
        \cup Variantes

\* The pages served while requests overlap: one per key, and one per way a
\* request can end after its page was read.
PagesSobrepostas ==
    { Base(k, <<Hdr, ItemA>>) : k \in RawChaves }
        \cup { [Base0 EXCEPT !.txtTopo = FALSE],
               [Base0 EXCEPT !.emissao = DataRuim],
               [Base0 EXCEPT !.desconto = TRUE],
               [Base0 EXCEPT !.totalNota = FALSE, !.rows = <<Hdr>>] }

(***************************************************************************)
(* extrair_dados_nfce                                                      *)
(***************************************************************************)
Exc(name) == [exc |-> name]
IsExc(v) == DOMAIN v = {"exc"}

\* The dict d with d[k] = v set.
Put(d, k, v) == (k :> v) @@ d

\* Lines 161-198: nome_comercio, CNPJ, endereco, data_compra.
DadosComercio(p) ==
    LET d1 == Put(<<>>, "nome_comercio", "nome")
        d2 == IF p.cnpj THEN Put(d1, "CNPJ", "cnpj") ELSE d1
        d3 == IF p.endereco THEN Put(d2, "endereco", "endereco") ELSE d2
    IN  IF p.emissao # None THEN Put(d3, "data_compra", p.emissao) ELSE d3

\* Lines 203-219: the totals and, inside the same branch, the access key.
\* nfce_data['desconto'] keeps the label element itself ("Tag") when the
\* label is there: the text read at line 212 is dropped.
DadosTotais(p, d) ==
    IF ~p.totalNota THEN d
    ELSE LET t1 == Put(d, "qtd_total_itens", "qtd")
             t2 == Put(t1, "valor_total", IF p.valor THEN "valor" ELSE None)
             t3 == Put(t2, "desconto", IF p.desconto THEN "Tag" ELSE None)
             t4 == Put(t3, "valor_pago", "pago")
         IN  IF p.spanChave
             THEN Put(t4, "chave_acesso", Remove(p.chave, " "))
             ELSE t4

\* Lines 240-248: the item of one row.
Item(row, d) == [codigo |-> row.cod, chave_compra |-> d["chave_acesso"]]

\* Lines 222-248: the rows of the table with at least one td, in order.
Linhas(p) == IF p.tabela THEN SelectSeq(p.rows, LAMBDA r : r.cells > 0) ELSE <<>>

\* The exception raised while reading row r (lines 231-247), or None.
ErroLinha(r, d) ==
    IF ~r.spans THEN "AttributeError"
    ELSE IF r.cells < 2 THEN "IndexError"
    ELSE IF "chave_acesso" \notin DOMAIN d THEN "KeyError"
    ELSE None

extrair_dados_nfce(p) ==
    IF ~p.txtTopo THEN Exc("AttributeError")
    ELSE IF p.totalNota /\ (~p.qtd \/ ~p.linhaShade) THEN Exc("AttributeError")
    ELSE LET d == DadosTotais(p, DadosComercio(p))
             linhas == Linhas(p)
             ruins == {i \in DOMAIN linhas : ErroLinha(linhas[i], d) # None}
         IN  IF ruins # {}
             THEN Exc(ErroLinha(linhas[CHOOSE i \in ruins : \A j \in ruins : i <= j], d))
             ELSE Put(d, "itens", [i \in DOMAIN linhas |-> Item(linhas[i], d)])

(***************************************************************************)
(* inserir_dados_nfce_bd: the pure part                                    *)
(***************************************************************************)

\* datetime.strptime(s, "%d/%m/%Y %H:%M:%S") accepts s.
DataValida(s) == s = DataBoa

\* strptime(...).replace(tzinfo=ZoneInfo("America/Sao_Paulo")).isoformat()
IsoFormat(s) == IF s = DataBoa THEN "2024-03-05T14:30:00-03:00" ELSE None

\* Rows of 'compra' whose column chave equals k (line 271).
Consulta(tabela, k) == SelectSeq(tabela, LAMBDA row : row.chave = k)

\* The guard of line 273 dropped: every key counts as new.
NotaNovaSempre(data) == TRUE

\* Line 273: the guard of the insert.
NotaNova(data) == Len(data) = 0

\* Lines 274-284, once the lookup returned no row: the row to insert into
\* 'compra', or the exception raised while building it.
LinhaCompra(d) ==
    IF "data_compra" \notin DOMAIN d THEN Exc("KeyError")
    ELSE IF ~DataValida(d["data_compra"]) THEN Exc("ValueError")
    ELSE IF d["desconto"] = "Tag" THEN Exc("TypeError")
    ELSE IF "endereco" \notin DOMAIN d THEN Exc("KeyError")
    ELSE IF "CNPJ" \notin DOMAIN d THEN Exc("KeyError")
    ELSE [chave |-> Replace(d["chave_acesso"], ",", "."),
          data |-> IsoFormat(d["data_compra"]),
          valor_total |-> d["valor_total"],
          desconto |-> d["desconto"],
          valor_pago |-> d["valor_pago"],
          nome_comercio |-> d["nome_comercio"],
          endereco |-> d["endereco"],
          cnpj |-> d["CNPJ"]]

(***************************************************************************)
(* The server                                                              *)
(***************************************************************************)
VARIABLES
    compra,      \* table 'compra': sequence of rows
    origem,      \* history: for each row of compra, the extracted key it came from
    parciais,    \* history: extracted keys whose row went in and whose items did not
    produto,     \* table 'produto': sequence of item rows
    feedbacks,   \* the list feedbacks (line 52); n is the ordinal of the append
    nfb,         \* history: number of entries appended so far
    devolvidos,  \* history: ordinals of the entries GET /feedback returned
    ultimo,      \* the last response of GET /feedback
    pc,          \* where each worker is in nota()
    req,         \* the locals of the request of each worker, and its history
    resposta,    \* the last response of POST /nota of each worker
    browser,     \* the headless browser of each worker
    posts        \* number of POST /nota started

vars == <<compra, origem, parciais, produto, feedbacks, nfb, devolvidos, ultimo, pc, req,
          resposta, browser, posts>>

SemFeedback == [code |-> 0, message |-> "Sem novos feedbacks", n |-> 0]

\* No response was sent yet.
SemResposta == [status |-> 0, body |-> <<>>]

ReqInicial ==
    [content |-> <<>>,
     driver |-> FALSE,      \* the local 'driver' is not None
     html |-> <<>>,         \* <<page>> once page_source was read
     nfce |-> <<>>,         \* <<result of extrair_dados_nfce>>
     linha |-> <<>>,        \* <<row to insert into compra>>
     consulta |-> "nao",    \* history: "nao", "vazia" or "existe"
     persistencia |-> 0,    \* history: persistence calls made
     navegou |-> FALSE,     \* history: the browser step was entered
     externa |-> FALSE,     \* history: a collaborator raised
     fb |-> <<>>,           \* history: codes this request appended
     pre |-> [compra |-> <<>>, produto |-> <<>>]]

Init ==
    /\ compra = <<>>
    /\ origem = <<>>
    /\ parciais = {}
    /\ produto = <<>>
    /\ feedbacks = <<>>
    /\ nfb = 0
    /\ devolvidos = {}
    /\ ultimo = SemFeedback
    /\ pc = [w \in Workers |-> "idle"]
    /\ req = [w \in Workers |-> ReqInicial]
    /\ resposta = [w \in Workers |-> SemResposta]
    /\ browser = [w \in Workers |-> [aberto |-> FALSE, sessoes |-> 0, quits |-> 0]]
    /\ posts = 0

\* feedbacks.append({"code": code, "message": msg}) on the list fbs.
Anexa(fbs, code, msg) ==
    Append(fbs, [code |-> code, message |-> msg, n |-> Len(fbs) - Len(feedbacks) + nfb + 1])

\* The request of w returns (status, body); fbs is the feedback list it leaves.
Responde(w, r, fbs, status, body) ==
    /\ feedbacks' = fbs
    /\ nfb' = nfb + Len(fbs) - Len(feedbacks)
    /\ req' = [req EXCEPT ![w] =
                 [r EXCEPT !.fb = [i \in 1..(Len(fbs) - Len(feedbacks)) |->
                                      fbs[Len(feedbacks) + i].code]]]
    /\ resposta' = [resposta EXCEPT ![w] = [status |-> status, body |-> body]]
    /\ pc' = [pc EXCEPT ![w] = "done"]

\* nota() with the ValueError clause missing: every exception answers 400.
NotaExceptGenerico(w, r, fbs, e) ==
    Responde(w, r, Anexa(fbs, 400, <<"Um erro ocorreu", e>>), 400, <<"error", e>>)

\* Lines 83-91: the except clauses of nota(), for exception e raised with the
\* feedback list at fbs.
NotaExcept(w, r, fbs, e) ==
    IF e = "ValueError"
    THEN Responde(w, r, fbs, 409, <<"erro", e>>)
    ELSE Responde(w, r, Anexa(fbs, 400, <<"Um erro ocorreu", e>>), 400, <<"error", e>>)

\* extrair_HTML without the finally clause: the browser is never quit.
FinallyAusente(w, r) == UNCHANGED browser

\* Lines 135-138: the finally clause of extrair_HTML.
Finally(w, r) ==
    IF r.driver
    THEN browser' = [browser EXCEPT ![w].aberto = FALSE, ![w].quits = @ + 1]
    ELSE UNCHANGED browser

\* Worker w serves no request.
Livre(w) == pc[w] \in {"idle", "done"}

\* Lines 72-82: POST /nota is taken by the first free worker (the threads are
\* interchangeable); the link is checked.
Post(w, content) ==
    /\ Livre(w)
    /\ \A v \in Workers : v < w => ~Livre(v)
    /\ posts < MaxPosts
    /\ posts' = posts + 1
    /\ LET r == [ReqInicial EXCEPT !.content = content,
                                   !.pre = [compra |-> compra, produto |-> produto]]
       IN  IF Contains(content, LinkEsperado)
           THEN /\ pc' = [pc EXCEPT ![w] = "chrome"]
                /\ req' = [req EXCEPT ![w] = r]
                /\ browser' = [browser EXCEPT ![w] = [aberto |-> FALSE, sessoes |-> 0, quits |-> 0]]
                /\ resposta' = [resposta EXCEPT ![w] = SemResposta]
                /\ UNCHANGED <<feedbacks, nfb>>
           ELSE /\ Responde(w, r, Anexa(feedbacks, 400, <<"Conteudo nao bate com link esperado.">>),
                            400, <<"Erro: Conteudo nao bate com link esperado">>)
                /\ UNCHANGED browser
    /\ UNCHANGED <<compra, origem, parciais, produto, devolvidos, ultimo>>

\* Lines 118-120: webdriver.Chrome(...) starts the session, or raises.
Chrome(w, ok) ==
    /\ pc[w] = "chrome"
    /\ LET r == [req[w] EXCEPT !.navegou = TRUE, !.driver = ok, !.externa = ~ok]
       IN  IF ok
           THEN /\ browser' = [browser EXCEPT ![w].aberto = TRUE, ![w].sessoes = @ + 1]
                /\ req' = [req EXCEPT ![w] = r]
                /\ pc' = [pc EXCEPT ![w] = "get"]
                /\ UNCHANGED <<feedbacks, nfb, resposta>>
           ELSE /\ Finally(w, r)
                /\ NotaExcept(w, r, feedbacks, "WebDriverException")
    /\ UNCHANGED <<compra, origem, parciais, produto, devolvidos, ultimo, posts>>

\* Line 123: driver.get(url) loads the page, or raises.
DriverGet(w, ok) ==
    /\ pc[w] = "get"
    /\ IF ok
       THEN /\ pc' = [pc EXCEPT ![w] = "wait"]
            /\ UNCHANGED <<req, browser, feedbacks, nfb, resposta>>
       ELSE LET r == [req[w] EXCEPT !.externa = TRUE]
            IN  /\ Finally(w, r)
                /\ NotaExcept(w, r, feedbacks, "WebDriverException")
    /\ UNCHANGED <<compra, origem, parciais, produto, devolvidos, ultimo, posts>>

\* Lines 127-138 and 76: the wait for 'tabResult' times out, or the page
\* source is read; the browser is quit; the page is handed to
\* extrair_dados_nfce.
Wait(w, visible, page) ==
    /\ pc[w] = "wait"
    /\ Finally(w, req[w])
    /\ IF ~visible
       THEN NotaExcept(w, [req[w] EXCEPT !.externa = TRUE], feedbacks, "TimeoutException")
       ELSE LET nfce == extrair_dados_nfce(page)
                r == [req[w] EXCEPT !.html = <<page>>, !.nfce = <<nfce>>]
            IN  IF IsExc(nfce)
                THEN NotaExcept(w, r, feedbacks, nfce.exc)
                ELSE /\ req' = [req EXCEPT ![w] = r]
                     /\ pc' = [pc EXCEPT ![w] = "select"]
                     /\ UNCHANGED <<feedbacks, nfb, resposta>>
    /\ UNCHANGED <<compra, origem, parciais, produto, devolvidos, ultimo, posts>>

\* Lines 271-275 and 287-289: the lookup of the key, then either the row to
\* insert is built or the duplicate is reported.
Select(w, ok) ==
    /\ pc[w] = "select"
    /\ LET d == req[w].nfce[1]
       IN  IF "chave_acesso" \notin DOMAIN d
           THEN NotaExcept(w, req[w], feedbacks, "KeyError")
           ELSE IF ~ok
           THEN NotaExcept(w, [req[w] EXCEPT !.persistencia = @ + 1, !.externa = TRUE],
                           feedbacks, "APIError")
           ELSE LET data == Consulta(compra, d["chave_acesso"])
                    r == [req[w] EXCEPT !.persistencia = @ + 1,
                                        !.consulta = IF Len(data) = 0 THEN "vazia" ELSE "existe"]
                IN  IF NotaNova(data)
                    THEN LET linha == LinhaCompra(d)
                         IN  IF IsExc(linha)
                             THEN NotaExcept(w, r, feedbacks, linha.exc)
                             ELSE /\ req' = [req EXCEPT ![w] = [r EXCEPT !.linha = <<linha>>]]
                                  /\ pc' = [pc EXCEPT ![w] = "insert_compra"]
                                  /\ UNCHANGED <<feedbacks, nfb, resposta>>
                    ELSE NotaExcept(w, r, Anexa(feedbacks, 409, <<"Nota ja existe.">>), "ValueError")
    /\ UNCHANGED <<compra, origem, parciais, produto, devolvidos, ultimo, browser, posts>>

\* Lines 277-284: the insert into 'compra' succeeds, or raises.
InsertCompra(w, ok) ==
    /\ pc[w] = "insert_compra"
    /\ LET r == [req[w] EXCEPT !.persistencia = @ + 1, !.externa = ~ok]
       IN  IF ok
           THEN /\ compra' = Append(compra, r.linha[1])
                /\ origem' = Append(origem, r.nfce[1]["chave_acesso"])
                /\ req' = [req EXCEPT ![w] = r]
                /\ pc' = [pc EXCEPT ![w] = "insert_produto"]
                /\ UNCHANGED <<feedbacks, nfb, resposta>>
           ELSE /\ NotaExcept(w, r, feedbacks, "APIError")
                /\ UNCHANGED <<compra, origem>>
    /\ UNCHANGED <<parciais, produto, devolvidos, ultimo, browser, posts>>

\* Lines 286 and 78-79: the insert into 'produto' succeeds and the request
\* answers 200, or raises.
InsertProduto(w, ok) ==
    /\ pc[w] = "insert_produto"
    /\ LET r == [req[w] EXCEPT !.persistencia = @ + 1, !.externa = ~ok]
       IN  IF ok
           THEN /\ produto' = produto \o r.nfce[1]["itens"]
                /\ Responde(w, r, Anexa(feedbacks, 200, <<"Nova nota inserida com sucesso.">>),
                            200, r.nfce[1])
                /\ UNCHANGED parciais
           ELSE /\ NotaExcept(w, r, feedbacks, "APIError")
                /\ parciais' = parciais \cup {r.nfce[1]["chave_acesso"]}
                /\ UNCHANGED produto
    /\ UNCHANGED <<compra, origem, devolvidos, ultimo, browser, posts>>

\* GET /feedback taking the oldest entry: feedbacks.pop(0).
get_feedback_fifo ==
    IF Len(feedbacks) > 0
    THEN /\ ultimo' = feedbacks[1]
         /\ feedbacks' = Tail(feedbacks)
    ELSE /\ ultimo' = SemFeedback
         /\ UNCHANGED feedbacks

\* Lines 63-68: GET /feedback.
get_feedback ==
    IF Len(feedbacks) > 0
    THEN /\ ultimo' = feedbacks[Len(feedbacks)]
         /\ feedbacks' = SubSeq(feedbacks, 1, Len(feedbacks) - 1)
    ELSE /\ ultimo' = SemFeedback
         /\ UNCHANGED feedbacks

GetFeedback ==
    /\ get_feedback
    /\ devolvidos' = IF ultimo'.n > 0 THEN devolvidos \cup {ultimo'.n} ELSE devolvidos
    /\ UNCHANGED <<compra, origem, parciais, produto, nfb, pc, req, resposta, browser, posts>>

Next ==
    \/ \E w \in Workers, c \in Contents : Post(w, c)
    \/ \E w \in Workers, ok \in BOOLEAN : Chrome(w, ok)
    \/ \E w \in Workers, ok \in BOOLEAN : DriverGet(w, ok)
    \/ \E w \in Workers, v \in BOOLEAN, p \in PagesSobrepostas : Wait(w, v, p)
    \/ \E w \in Workers, ok \in BOOLEAN : Select(w, ok)
    \/ \E w \in Workers, ok \in BOOLEAN : InsertCompra(w, ok)
    \/ \E w \in Workers, ok \in BOOLEAN : InsertProduto(w, ok)
    \/ GetFeedback

\* Requests may overlap: Flask serves each request on its own thread.
Spec == Init /\ [][Next]_vars

\* No other request is in progress.
Sozinho(w) == \A v \in Workers \ {w} : Livre(v)

SeqNext ==
    \/ \E w \in Workers, c \in Contents : Sozinho(w) /\ Post(w, c)
    \/ \E w \in Workers, ok \in BOOLEAN : Chrome(w, ok)
    \/ \E w \in Workers, ok \in BOOLEAN : DriverGet(w, ok)
    \/ \E w \in Workers, v \in BOOLEAN, p \in Pages : Wait(w, v, p)
    \/ \E w \in Workers, ok \in BOOLEAN : Select(w, ok)
    \/ \E w \in Workers, ok \in BOOLEAN : InsertCompra(w, ok)
    \/ \E w \in Workers, ok \in BOOLEAN : InsertProduto(w, ok)
    \/ GetFeedback

\* Sequential execution: each POST /nota runs to completion before the next
\* one starts.
SeqSpec == Init /\ [][SeqNext]_vars

(***************************************************************************)
(* Properties                                                              *)
(***************************************************************************)
\* s.startswith(sub), for sequences.
StartsWith(s, sub) ==
    Len(sub) <= Len(s) /\ SubSeq(s, 1, Len(sub)) = sub

\* The request of w has been answered.
Feito(w) == pc[w] = "done"

\* The request of w ends in this step.
Termina(w) == pc[w] # "done" /\ pc'[w] = "done"

\* The extracted access key of the request of w.
ChaveDe(w) == req[w].nfce[1]["chave_acesso"]

\* C1: under sequential execution the store never holds two rows of
\* 'compra' that came from the same extracted access key.
C1_UmaLinhaPorChave ==
    \A i, j \in DOMAIN origem : origem[i] = origem[j] => i = j

\* C2: a POST /nota whose lookup finds its extracted access key in 'compra'
\* answers 409, leaves 'compra' and 'produto' as they were when the request
\* arrived, and appends exactly one feedback entry, of code 409.
C2_DuplicadaRejeitada ==
    [][\A w \in Workers :
          (Termina(w) /\ req'[w].consulta = "existe") =>
              /\ resposta'[w].status = 409
              /\ compra' = req'[w].pre.compra
              /\ produto' = req'[w].pre.produto
              /\ req'[w].fb = <<409>>
              /\ Len(feedbacks') = Len(feedbacks) + 1
              /\ feedbacks'[Len(feedbacks')].code = 409]_vars

\* C2 witness: a request found its key stored and answered 409.
C2_Witness ==
    \E w \in Workers :
        /\ Feito(w)
        /\ req[w].consulta = "existe"
        /\ resposta[w].status = 409
        /\ Len(compra) > 0

\* C3: a POST /nota whose content does not start with the expected link
\* answers 400 with one feedback entry of code 400 and reaches neither the
\* browser nor the persistence layer; the browser and the persistence layer
\* are reached only for content that starts with the expected link.
C3_SoPrefixoAceito ==
    \A w \in Workers :
        /\ (Feito(w) /\ ~StartsWith(req[w].content, LinkEsperado)) =>
               /\ resposta[w].status = 400
               /\ req[w].fb = <<400>>
        /\ (req[w].navegou \/ req[w].persistencia > 0) =>
               StartsWith(req[w].content, LinkEsperado)

\* C4: a POST /nota with an accepted link that fails answers 409 exactly
\* when its key was found stored and 400 otherwise, and in both cases it
\* appended one feedback entry carrying the code of the response.
C4_ErrosComFeedback ==
    \A w \in Workers :
        (Feito(w) /\ Contains(req[w].content, LinkEsperado) /\ resposta[w].status # 200) =>
            /\ resposta[w].status = IF req[w].consulta = "existe" THEN 409 ELSE 400
            /\ req[w].fb = <<resposta[w].status>>

\* The page has every fragment the extraction and the insert read; a
\* discount label may or may not be there.
EstruturaEsperada(p) ==
    /\ p.txtTopo /\ p.cnpj /\ p.endereco /\ DataValida(p.emissao)
    /\ p.totalNota /\ p.qtd /\ p.valor /\ p.linhaShade /\ p.spanChave /\ p.tabela
    /\ \A i \in DOMAIN p.rows : p.rows[i].cells > 0 => (p.rows[i].cells = 2 /\ p.rows[i].spans)

\* The items a page should yield for key k: one per row with a td, in order.
ItensEsperados(p, k) ==
    LET linhas == SelectSeq(p.rows, LAMBDA r : r.cells > 0)
    IN  [i \in DOMAIN linhas |-> [codigo |-> linhas[i].cod, chave_compra |-> k]]

\* s occurs in t as a block of consecutive elements.
Bloco(s, t) == \E i \in 0..(Len(t) - Len(s)) : SubSeq(t, i + 1, i + Len(s)) = s

\* C5: a POST /nota that rendered a page of the expected structure, whose
\* key was not stored and whose collaborators did not fail, answers 200 with
\* the items of the rows that have a td, in order and under the receipt's
\* key, has them and the receipt row stored, and appended a code-200 entry.
C5_NotaInserida ==
    \A w \in Workers :
        (/\ Feito(w)
         /\ req[w].html # <<>>
         /\ ~req[w].externa
         /\ req[w].consulta = "vazia") =>
            LET p == req[w].html[1]
                k == Remove(p.chave, " ")
            IN  EstruturaEsperada(p) =>
                    /\ resposta[w].status = 200
                    /\ resposta[w].body["chave_acesso"] = k
                    /\ resposta[w].body["itens"] = ItensEsperados(p, k)
                    /\ \E i \in DOMAIN compra : origem[i] = k
                    /\ Bloco(ItensEsperados(p, k), produto)
                    /\ req[w].fb = <<200>>

\* C6: GET /feedback on a non-empty log removes and returns the entry
\* appended last among those in the log, which was never returned before;
\* on an empty log it returns the code-0 entry and leaves the log empty.
C6_UltimoPrimeiro ==
    [][(ultimo' # ultimo \/ Len(feedbacks') < Len(feedbacks)) =>
          IF Len(feedbacks) > 0
          THEN LET e == CHOOSE x \in {feedbacks[i] : i \in DOMAIN feedbacks} :
                            \A i \in DOMAIN feedbacks : feedbacks[i].n <= x.n
               IN  /\ ultimo' = e
                   /\ e.n \notin devolvidos
                   /\ feedbacks' = SelectSeq(feedbacks, LAMBDA x : x # e)
          ELSE /\ ultimo' = SemFeedback
               /\ feedbacks' = <<>>]_vars

\* C6 witness: of two entries in the log the later one was returned first,
\* and the earlier one is still there.
C6_Witness ==
    /\ Len(feedbacks) > 0
    /\ ultimo.code # 0
    /\ ultimo.n > feedbacks[Len(feedbacks)].n
    /\ ultimo.n \in devolvidos

\* C7: outside extrair_HTML no browser session of the request is open, every
\* session it opened was quit, and none was quit twice.
C7_SessaoFechada ==
    \A w \in Workers :
        /\ browser[w].quits <= browser[w].sessoes
        /\ browser[w].sessoes <= 1
        /\ pc[w] \notin {"get", "wait"} =>
               (~browser[w].aberto /\ browser[w].quits = browser[w].sessoes)

\* C7 witness: a request whose wait timed out has ended and its session was
\* quit.
C7_Witness ==
    \E w \in Workers :
        /\ Feito(w)
        /\ resposta[w].body = <<"error", "TimeoutException">>
        /\ browser[w].sessoes = 1
        /\ browser[w].quits = 1
        /\ ~browser[w].aberto

\* C8: when the page has no totalNota container, extrair_dados_nfce returns
\* a record without the totals and with the access key and the items of the
\* page.
C8_SemTotais ==
    \A w \in Workers :
        (req[w].html # <<>> /\ ~req[w].html[1].totalNota) =>
            LET p == req[w].html[1]
                d == req[w].nfce[1]
            IN  /\ ~IsExc(d)
                /\ DOMAIN d \cap {"qtd_total_itens", "valor_total", "desconto", "valor_pago"} = {}
                /\ p.spanChave => "chave_acesso" \in DOMAIN d
                /\ "itens" \in DOMAIN d
                /\ Len(d["itens"]) = Len(SelectSeq(p.rows, LAMBDA r : r.cells > 0))

\* C9: a request is between its lookup and its inserts only if its own
\* lookup returned no row; nothing else keeps two requests apart.
C9_InsereAposConsultaVazia ==
    \A w \in Workers :
        pc[w] \in {"insert_compra", "insert_produto"} => req[w].consulta = "vazia"

\* C9 witness: two overlapping requests with the same key both saw no row;
\* one has inserted its row and the other is about to insert too.
C9_Witness ==
    \E w, v \in Workers :
        /\ w # v
        /\ pc[w] = "insert_produto"
        /\ pc[v] = "insert_compra"
        /\ ChaveDe(w) = ChaveDe(v)
        /\ req[v].consulta = "vazia"
        /\ Len(Consulta(compra, ChaveDe(v))) > 0

\* C10: once the row of a key went into 'compra' and its items failed to go
\* into 'produto', the request answered 400, no later sequential request
\* with that key gets past the lookup, and 'produto' never holds items of
\* that key.
C10_ParcialFicaSemItens ==
    /\ \A w \in Workers :
           (Feito(w) /\ req[w].persistencia = 3 /\ req[w].externa) => resposta[w].status = 400
    /\ \A w \in Workers :
           pc[w] \in {"insert_compra", "insert_produto"} => ChaveDe(w) \notin parciais
    /\ \A i \in DOMAIN produto : produto[i].chave_compra \notin parciais

====
